---------------------------- MODULE Spec2Model ----------------------------
(***************************************************************************)
(* Model of red/runtime-api/flows.js (RED.flows): the administrative API   *)
(* over the flow store (runtime.nodes) with its audit log                  *)
(* (runtime.log).                                                          *)
(*                                                                         *)
(* Every API call returns a Promise.  The executor of that promise runs    *)
(* synchronously (one action per API function); when it hands work to the  *)
(* store it leaves a store promise pending.  In a later step the store     *)
(* settles that promise (committing its write when it fulfils it) and the  *)
(* .then / .catch callback the API function registered runs in the same    *)
(* turn of the event loop, before any other request is served: one action  *)
(* per callback, whose store part is the Nodes... operator it uses.        *)
(*                                                                         *)
(* Modelling conventions                                                   *)
(*   - JavaScript `undefined` is Undefined for strings, NoRev for a        *)
(*     revision and NoStatus for a numeric status.                         *)
(*   - The store's numeric error code 404 is the value Code404; it is      *)
(*     different from every string code ("not_found", ...).                *)
(*   - The module never declares `log`; `runtime.log` is the only logger   *)
(*     it binds.  A bare `log` resolves against the global object of the   *)
(*     host process: logBound says whether the host defines one.  When it  *)
(*     does not, evaluating `log` throws a ReferenceError.                 *)
(***************************************************************************)
EXTENDS Integers, Sequences, FiniteSets, TLC

VARIABLES
    rev,          \* runtime.nodes.getFlows().rev : the store's revision
    storeFlows,   \* runtime.nodes.getFlows().flows : the store's flow array
    flowTable,    \* runtime.nodes.getFlow(id) : the flow held per id
    credentials,  \* the store's credentials, per node id
    definitions,  \* the store's credential definitions, per node type
    logBound,     \* whether the host process defines a global `log`
    calls         \* per caller: the API call in flight and its promise

vars == <<rev, storeFlows, flowTable, credentials, definitions, logBound, calls>>

---------------------------------------------------------------------------
(* Bounds and value universes *)

\* Number of distinct revision identifiers the store hands out.
NumRevs == 2

\* Longest credential definition (number of declared fields).
MaxFields == 2

\* Concurrent callers of the API (each has at most one call in flight).
Callers == {"c1", "c2"}

Revs == 1..NumRevs

\* `undefined` where a revision is expected.
NoRev == 0

\* `undefined` where a numeric status is expected.
NoStatus == 0

\* `undefined` / absent, where a string is expected.
Undefined == "undefined"

\* The flow arrays (opaque node configurations) callers submit.
FlowArrays == {"nodesA", "nodesB"}

\* Flow identifiers.
FlowIds == {"f1"}

\* Flow configurations (opaque) callers submit with addFlow / updateFlow.
FlowBodies == {"flowX", "flowY"}

\* opts.deploymentType as supplied by the caller.
DeploymentTypes == {Undefined, "nodes", "reload"}

\* HTTP-convention statuses set by this layer.
Status409 == 409
Status404 == 404
Status400 == 400

\* The store's numeric "unknown id" code (err.code === 404): a number, so
\* different from any string code.
Code404 == "<number 404>"

\* Errors the store fails with: an Error carrying an optional code and an
\* optional status of its own.
StoreErrorCodes == {Undefined, Code404, "invalid_flow"}

StoreErrors ==
    {[message |-> "store failure", code |-> code,
      status |-> IF code = "invalid_flow" THEN 500 ELSE NoStatus] :
        code \in StoreErrorCodes}

NoError == [message |-> Undefined, code |-> Undefined, status |-> NoStatus]

\* new Error() : no message, no code, no status.
NewError == [message |-> "", code |-> Undefined, status |-> NoStatus]

\* What evaluating the undeclared identifier `log` throws.
ReferenceError ==
    [message |-> "log is not defined", code |-> Undefined, status |-> NoStatus]

\* What flows.hasOwnProperty throws when opts.flows is undefined.
TypeError ==
    [message |-> "Cannot read property 'hasOwnProperty' of undefined",
     code |-> Undefined, status |-> NoStatus]

---------------------------------------------------------------------------
(* Trace events of one call: audit records and calls into the store, in   *)
(* the order the code performs them.                                       *)

Event(k, name, type, id, error, flows) ==
    [k |-> k, name |-> name, type |-> type, id |-> id, error |-> error,
     flows |-> flows]

\* runtime.log.audit({event:..., type:..., id:..., error:...})
AuditRecord(event, type, id, error) ==
    Event("audit", event, type, id, error, Undefined)

\* A call of a runtime.nodes function.
StoreCall(name, type, id, flows) ==
    Event("store", name, type, id, Undefined, flows)

---------------------------------------------------------------------------
(* Call records *)

\* opts of an API call.  flows is opts.flows (the payload): present says
\* whether it is an object at all, hasRev whether it has an own property
\* `rev`.
NoPayload == [present |-> FALSE, hasRev |-> FALSE, rev |-> NoRev, flows |-> Undefined]

Payloads ==
    {NoPayload}
    \cup [present : {TRUE}, hasRev : {FALSE}, rev : {NoRev}, flows : FlowArrays]
    \cup [present : {TRUE}, hasRev : {TRUE}, rev : Revs, flows : FlowArrays]

NoOpts ==
    [deploymentType |-> Undefined, flows |-> NoPayload, id |-> Undefined,
     flow |-> Undefined, type |-> Undefined]

\* What the store answered the call with: nothing yet ("none"), a promise
\* still "pending", one "fulfilled" with a value (a revision or an id), one
\* "rejected" with an error, or a synchronous throw ("threw") of an error.
NoPromise == [state |-> "none", rev |-> NoRev, id |-> Undefined, err |-> NoError]

PendingPromise == [NoPromise EXCEPT !.state = "pending"]

\* The value a call resolves with: shape names the JavaScript shape; rev,
\* val and obj hold its parts.
Value(shape, r, val, obj) == [shape |-> shape, rev |-> r, val |-> val, obj |-> obj]

NoValue == Value("none", NoRev, Undefined, <<>>)

\* The promise returned to the caller.
PendingOut == [state |-> "pending", value |-> NoValue, err |-> NoError]

\* pc: "idle"     no call in flight
\*     "waiting"  the executor has run, the store's promise is pending
\*     "done"     all code of the call has run
\* stale is history, not state of the program: whether the store has
\* committed a write since the call read the store (kept for getFlows and
\* getFlow only).
IdleCall ==
    [pc |-> "idle", op |-> "none", opts |-> NoOpts, trace |-> <<>>,
     promise |-> NoPromise, out |-> PendingOut, stale |-> FALSE]

\* return new Promise(function(resolve,reject) { ... })
Start(op, opts) ==
    [pc |-> "done", op |-> op, opts |-> opts, trace |-> <<>>,
     promise |-> NoPromise, out |-> PendingOut, stale |-> FALSE]

\* runtime.log.audit(record), or log.audit(record) where `log` is bound
Audit(call, record) == [call EXCEPT !.trace = Append(@, record)]

\* A call of a runtime.nodes function that returns a value at once.
Read(call, storeCall) == [call EXCEPT !.trace = Append(@, storeCall)]

\* A call of a runtime.nodes function that returns a promise.
Await(call, storeCall) ==
    [call EXCEPT !.pc = "waiting", !.trace = Append(@, storeCall),
                 !.promise = PendingPromise]

\* A call of a runtime.nodes function that throws err.
Threw(call, storeCall, err) ==
    [call EXCEPT !.trace = Append(@, storeCall),
                 !.promise = [NoPromise EXCEPT !.state = "threw", !.err = err]]

\* resolve(value): settles the caller's promise unless it is settled.
Resolve(call, value) ==
    IF call.out.state # "pending" THEN call
    ELSE [call EXCEPT
             !.trace = Append(@, Event("resolve", value.shape, Undefined,
                                       Undefined, Undefined, Undefined)),
             !.out = [state |-> "resolved", value |-> value, err |-> NoError]]

\* reject(err)
Reject(call, err) ==
    IF call.out.state # "pending" THEN call
    ELSE [call EXCEPT
             !.trace = Append(@, Event("reject", Undefined, Undefined,
                                       Undefined, err.code, Undefined)),
             !.out = [state |-> "rejected", value |-> NoValue, err |-> err]]

\* The runtime.nodes function whose promise the call is waiting for.
Awaited(call) == call.trace[Len(call.trace)].name

\* The callback of a settled store promise has run to its end.
Finish(call) == [call EXCEPT !.pc = "done"]

---------------------------------------------------------------------------
(* The flow store (runtime.nodes) settling a promise it returned.          *)

\* The call, its store promise fulfilled with a revision or an id.
Fulfil(call, r, id) ==
    [call EXCEPT !.promise = [state |-> "fulfilled", rev |-> r, id |-> id,
                              err |-> NoError]]

\* The call, its store promise rejected with err.
RejectWith(call, err) ==
    [call EXCEPT !.promise = [state |-> "rejected", rev |-> NoRev,
                              id |-> Undefined, err |-> err]]

\* What the store may throw synchronously on update / remove of id, or
\* reject the promise of such a call with: its code-404 error exactly when
\* it holds no flow for id, another error at any time.
StoreThrows(id, table) ==
    {e \in StoreErrors : (e.code = Code404) <=> (table[id] = Undefined)}

\* The errors the store may reject the pending promise of a call with.
StoreRejections(call, table) ==
    IF call.op \in {"updateFlow", "deleteFlow"}
    THEN StoreThrows(call.opts.id, table)
    ELSE StoreErrors

\* The store's state as one record.
Store == [rev |-> rev, flows |-> storeFlows, table |-> flowTable]

\* The store's state after it has committed a write.
\* runtime.nodes.setFlows(flows, type): the flow array is replaced and a
\* revision r assigned.
NodesSetFlows(store, flows, r) == [store EXCEPT !.rev = r, !.flows = flows]

\* runtime.nodes.loadFlows(): the flows are re-read from their source.
NodesLoadFlows(store, flows, r) == [store EXCEPT !.rev = r, !.flows = flows]

\* runtime.nodes.addFlow(flow): the flow is stored under a fresh id.
NodesAddFlow(store, id, flow, r) ==
    [store EXCEPT !.rev = r, !.table = [@ EXCEPT ![id] = flow]]

\* runtime.nodes.updateFlow(id, flow): the flow of a known id is replaced.
NodesUpdateFlow(store, id, flow, r) ==
    [store EXCEPT !.rev = r, !.table = [@ EXCEPT ![id] = flow]]

\* runtime.nodes.removeFlow(id): the flow of a known id is removed.
NodesRemoveFlow(store, id, r) ==
    [store EXCEPT !.rev = r, !.table = [@ EXCEPT ![id] = Undefined]]

\* The operations that only read the store's flows.
FlowReads == {"getFlows", "getFlow"}

\* The call records once the store has committed a write: what a call has
\* read before is no longer known to be current.
Outdated(cs) ==
    [c \in DOMAIN cs |->
        IF cs[c].op \in FlowReads THEN [cs[c] EXCEPT !.stale = TRUE] ELSE cs[c]]

Commit(store) ==
    /\ rev' = store.rev
    /\ storeFlows' = store.flows
    /\ flowTable' = store.table
    /\ UNCHANGED <<credentials, definitions, logBound>>

NoCommit ==
    UNCHANGED <<rev, storeFlows, flowTable, credentials, definitions, logBound>>


---------------------------------------------------------------------------
(* setFlows *)

\* Mutant: the deployment type taken as given, without the default.
DeploymentTypeRaw(opts) == opts.deploymentType

\* var deploymentType = opts.deploymentType||"full";
DeploymentType(opts) ==
    IF opts.deploymentType = Undefined THEN "full" ELSE opts.deploymentType

\* Mutant: the flows.set record without its type tag.
SetFlowsAuditUntagged(deploymentType) ==
    AuditRecord("flows.set", Undefined, Undefined, Undefined)

\* {event: "flows.set",type:deploymentType}
SetFlowsAuditRecord(deploymentType) ==
    AuditRecord("flows.set", deploymentType, Undefined, Undefined)

\* Mutant: the reload branch never taken.
IsReloadNever(deploymentType) == FALSE

\* if (deploymentType === 'reload')
IsReload(deploymentType) == deploymentType = "reload"

\* Mutant: the revision compared whether or not the payload has a rev.
HasOwnRevAlways(flows) == TRUE

\* if (flows.hasOwnProperty('rev'))
HasOwnRev(flows) == flows.hasRev

\* Mutant: the comparison inverted (=== for !==).
VersionDiffersInverted(currentVersion, flows) == currentVersion = flows.rev

\* Mutant: writers serialized here: a payload that declares a rev is taken
\* as stale while the write of another call is in flight.
VersionDiffersOrBusy(currentVersion, flows) ==
    \/ currentVersion # flows.rev
    \/ \E d \in Callers :
          /\ calls[d].pc = "waiting"
          /\ calls[d].op = "setFlows"
          /\ calls[d].trace[Len(calls[d].trace)].name = "setFlows"

\* if (currentVersion !== flows.rev)
VersionDiffers(currentVersion, flows) == currentVersion # flows.rev

\* err = new Error(); err.code = "version_mismatch"; err.status = 409;
VersionMismatch ==
    [NewError EXCEPT !.code = "version_mismatch", !.status = Status409]

\* runtime.nodes.getFlows()
GetFlowsStoreCall == StoreCall("getFlows", Undefined, Undefined, Undefined)

\* runtime.nodes.loadFlows()
LoadFlowsStoreCall == StoreCall("loadFlows", Undefined, Undefined, Undefined)

\* runtime.nodes.setFlows(flows.flows,deploymentType)
SetFlowsStoreCall(flows, deploymentType) ==
    StoreCall("setFlows", deploymentType, Undefined, flows.flows)

\* The executor of setFlows: the call record it leaves, given opts and the
\* revision runtime.nodes.getFlows() reports now.
SetFlowsExecutor(opts, currentRev) ==
    LET flows == opts.flows
        deploymentType == DeploymentType(opts)
        audited == Audit(Start("setFlows", opts),
                         SetFlowsAuditRecord(deploymentType))
    IN  IF IsReload(deploymentType)
        THEN Await(audited, LoadFlowsStoreCall)
        ELSE IF ~flows.present
        THEN \* flows.hasOwnProperty throws; the executor's throw rejects
             Reject(audited, TypeError)
        ELSE IF HasOwnRev(flows)
        THEN LET compared == Read(audited, GetFlowsStoreCall)
             IN  IF VersionDiffers(currentRev, flows)
                 THEN Reject(compared, VersionMismatch)
                 ELSE Await(compared, SetFlowsStoreCall(flows, deploymentType))
        ELSE Await(audited, SetFlowsStoreCall(flows, deploymentType))

\* The revisions callers hold from earlier calls of getFlows.
RevsRead ==
    {calls[c].out.value.rev : c \in {d \in Callers : calls[d].op = "getFlows"}}

\* Mutant: the revision remembered from an earlier call of getFlows, where
\* there is one.
RememberedVersion(store) ==
    IF RevsRead = {} THEN store.rev ELSE CHOOSE r \in RevsRead : TRUE

\* var currentVersion = runtime.nodes.getFlows().rev;
CurrentVersion(store) == store.rev

SetFlows(c) ==
    /\ calls[c].pc = "idle"
    /\ \E dt \in DeploymentTypes, p \in Payloads :
          calls' = [calls EXCEPT ![c] =
              SetFlowsExecutor([NoOpts EXCEPT !.deploymentType = dt, !.flows = p],
                               CurrentVersion(Store))]
    /\ NoCommit

\* apiPromise.then(function(flowId) { return resolve({rev:flowId}); })
SetFlowsThenOutcome(call) ==
    Finish(Resolve(call, Value("{rev}", call.promise.rev, Undefined, <<>>)))

\* The store fulfils the promise of setFlows / loadFlows; the callback runs.
SetFlowsThen(c) ==
    /\ calls[c].pc = "waiting"
    /\ calls[c].op = "setFlows"
    /\ \E r \in Revs, f \in FlowArrays :
          /\ IF Awaited(calls[c]) = "loadFlows"
             THEN Commit(NodesLoadFlows(Store, f, r))
             ELSE /\ f = calls[c].opts.flows.flows
                  /\ Commit(NodesSetFlows(Store, f, r))
          /\ calls' = Outdated([calls EXCEPT ![c] =
                SetFlowsThenOutcome(Fulfil(calls[c], r, Undefined))])

\* log.warn(log._("api.flows.error-"+(deploymentType === 'reload'?'reload':'save'),...))
WarnRecord(deploymentType) ==
    Event("warn",
          IF deploymentType = "reload" THEN "api.flows.error-reload"
                                       ELSE "api.flows.error-save",
          Undefined, Undefined, Undefined, Undefined)

\* log.warn(err.stack)
StackRecord ==
    Event("warn", "err.stack", Undefined, Undefined, Undefined, Undefined)

\* .catch(function(err) { log.warn(...); log.warn(err.stack); return reject(err); })
\* `log` is not declared in the module: where the host defines none, the
\* callback throws before reject(err), the throw rejects only the promise
\* .catch() returned, which nobody holds, and the caller's promise stays
\* pending.
SetFlowsCatchOutcome(call, bound) ==
    IF bound
    THEN Finish(Reject(Audit(Audit(call, WarnRecord(DeploymentType(call.opts))),
                             StackRecord),
                       call.promise.err))
    ELSE Finish(call)

\* The store rejects the promise of setFlows / loadFlows; the callback runs.
SetFlowsCatch(c) ==
    /\ calls[c].pc = "waiting"
    /\ calls[c].op = "setFlows"
    /\ \E e \in StoreRejections(calls[c], flowTable) :
          calls' = [calls EXCEPT ![c] =
              SetFlowsCatchOutcome(RejectWith(calls[c], e), logBound)]
    /\ NoCommit

---------------------------------------------------------------------------
(* getFlows, addFlow, getFlow *)

\* err.code||"unexpected_error"
ErrorCodeOr(err) ==
    IF err.code = Undefined THEN "unexpected_error" ELSE err.code

\* Mutant: the store's own status left on the error.
StatusKept(err) == err

\* err.status = 400;
BadRequest(err) == [err EXCEPT !.status = Status400]

\* Mutant: the flow array resolved without the revision it belongs to.
FlowsWithoutRev(store) == Value("{rev,flows}", NoRev, store.flows, <<>>)

\* runtime.nodes.getFlows() : {rev, flows} as the store holds them
CurrentFlows(store) == Value("{rev,flows}", store.rev, store.flows, <<>>)

\* runtime.log.audit({event: "flows.get"}); resolve(runtime.nodes.getFlows());
GetFlowsExecutor(opts, store) ==
    Resolve(Read(Audit(Start("getFlows", opts),
                       AuditRecord("flows.get", Undefined, Undefined, Undefined)),
                 GetFlowsStoreCall),
            CurrentFlows(store))

GetFlows(c) ==
    /\ calls[c].pc = "idle"
    /\ calls' = [calls EXCEPT ![c] = GetFlowsExecutor(NoOpts, Store)]
    /\ NoCommit

\* runtime.nodes.addFlow(flow).then(...).catch(...)
AddFlowExecutor(opts) ==
    Await(Start("addFlow", opts),
          StoreCall("addFlow", Undefined, Undefined, opts.flow))

AddFlow(c) ==
    /\ calls[c].pc = "idle"
    /\ \E f \in FlowBodies :
          calls' = [calls EXCEPT ![c] = AddFlowExecutor([NoOpts EXCEPT !.flow = f])]
    /\ NoCommit

\* .then(function(id) { runtime.log.audit({event: "flow.add",id:id}); return resolve(id); })
AddFlowThenOutcome(call) ==
    Finish(Resolve(Audit(call, AuditRecord("flow.add", Undefined,
                                           call.promise.id, Undefined)),
                   Value("id", NoRev, call.promise.id, <<>>)))

\* The store fulfils the promise of addFlow; the callback runs.
AddFlowThen(c) ==
    /\ calls[c].pc = "waiting"
    /\ calls[c].op = "addFlow"
    /\ \E id \in FlowIds, r \in Revs :
          /\ flowTable[id] = Undefined
          /\ Commit(NodesAddFlow(Store, id, calls[c].opts.flow, r))
          /\ calls' = Outdated([calls EXCEPT ![c] =
                AddFlowThenOutcome(Fulfil(calls[c], NoRev, id))])

\* .catch(function(err) { runtime.log.audit({event: "flow.add",error:err.code||"unexpected_error",...});
\*                        err.status = 400; return reject(err); })
AddFlowCatchOutcome(call) ==
    Finish(Reject(Audit(call, AuditRecord("flow.add", Undefined, Undefined,
                                          ErrorCodeOr(call.promise.err))),
                  BadRequest(call.promise.err)))

\* The store rejects the promise of addFlow; the callback runs.
AddFlowCatch(c) ==
    /\ calls[c].pc = "waiting"
    /\ calls[c].op = "addFlow"
    /\ \E e \in StoreRejections(calls[c], flowTable) :
          calls' = [calls EXCEPT ![c] = AddFlowCatchOutcome(RejectWith(calls[c], e))]
    /\ NoCommit

\* Mutant: the lookup taken as a hit whatever it returned.
IsFoundAlways(flow) == TRUE

\* if (flow)
IsFound(flow) == flow # Undefined

\* var flow = runtime.nodes.getFlow(opts.id); if (flow) {...} else {...}
GetFlowExecutor(opts, flow) ==
    LET looked == Read(Start("getFlow", opts),
                       StoreCall("getFlow", Undefined, opts.id, Undefined))
    IN  IF IsFound(flow)
        THEN Resolve(Audit(looked, AuditRecord("flow.get", Undefined, opts.id,
                                               Undefined)),
                     Value("flow", NoRev, flow, <<>>))
        ELSE Reject(Audit(looked, AuditRecord("flow.get", Undefined, opts.id,
                                              "not_found")),
                    [NewError EXCEPT !.status = Status404])

GetFlow(c) ==
    /\ calls[c].pc = "idle"
    /\ \E id \in FlowIds :
          calls' = [calls EXCEPT ![c] =
              GetFlowExecutor([NoOpts EXCEPT !.id = id], flowTable[id])]
    /\ NoCommit

---------------------------------------------------------------------------
(* updateFlow, deleteFlow *)

\* if (err.code === 404)
IsStoreNotFound(err) == err.code = Code404

\* err.status = 404; err.code = "not_found";
NotFoundSwap(err) == [err EXCEPT !.status = Status404, !.code = "not_found"]

\* try { runtime.nodes.updateFlow(id,flow).then(...).catch(...) } catch(err) {...}
\* thrown is what runtime.nodes.updateFlow throws, NoError when it returns
\* a promise.
UpdateFlowExecutor(opts, thrown) ==
    LET call == Start("updateFlow", opts)
        storeCall == StoreCall("updateFlow", Undefined, opts.id, opts.flow)
        caught == Threw(call, storeCall, thrown)
    IN  IF thrown = NoError
        THEN Await(call, storeCall)
        ELSE IF IsStoreNotFound(thrown)
        THEN Reject(Audit(caught, AuditRecord("flow.update", Undefined, opts.id,
                                              "not_found")),
                    NotFoundSwap(thrown))
        ELSE Reject(Audit(caught, AuditRecord("flow.update", Undefined, Undefined,
                                              ErrorCodeOr(thrown))),
                    BadRequest(thrown))

UpdateFlow(c) ==
    /\ calls[c].pc = "idle"
    /\ \E id \in FlowIds, f \in FlowBodies :
       \E thrown \in {NoError} \cup StoreThrows(id, flowTable) :
          calls' = [calls EXCEPT ![c] =
              UpdateFlowExecutor([NoOpts EXCEPT !.id = id, !.flow = f], thrown)]
    /\ NoCommit

\* .then(function() { runtime.log.audit({event: "flow.update",id:id}); return resolve(id); })
UpdateFlowThenOutcome(call) ==
    Finish(Resolve(Audit(call, AuditRecord("flow.update", Undefined,
                                           call.opts.id, Undefined)),
                   Value("id", NoRev, call.opts.id, <<>>)))

\* The store fulfils the promise of updateFlow; the callback runs.
UpdateFlowThen(c) ==
    /\ calls[c].pc = "waiting"
    /\ calls[c].op = "updateFlow"
    /\ flowTable[calls[c].opts.id] # Undefined
    /\ \E r \in Revs :
          Commit(NodesUpdateFlow(Store, calls[c].opts.id, calls[c].opts.flow, r))
    /\ calls' = Outdated([calls EXCEPT ![c] =
          UpdateFlowThenOutcome(Fulfil(calls[c], NoRev, Undefined))])

\* .catch(function(err) { runtime.log.audit({event: "flow.update",error:err.code||"unexpected_error",...});
\*                        err.status = 400; return reject(err); })
UpdateFlowCatchOutcome(call) ==
    Finish(Reject(Audit(call, AuditRecord("flow.update", Undefined, Undefined,
                                          ErrorCodeOr(call.promise.err))),
                  BadRequest(call.promise.err)))

\* The store rejects the promise of updateFlow; the callback runs.
UpdateFlowCatch(c) ==
    /\ calls[c].pc = "waiting"
    /\ calls[c].op = "updateFlow"
    /\ \E e \in StoreRejections(calls[c], flowTable) :
          calls' = [calls EXCEPT ![c] =
              UpdateFlowCatchOutcome(RejectWith(calls[c], e))]
    /\ NoCommit

\* try { runtime.nodes.removeFlow(id).then(...) } catch(err) {...}
\* The catch block audits through the undeclared `log`: where the host
\* defines none, the block throws a ReferenceError out of the executor,
\* which rejects the caller's promise with it.
DeleteFlowExecutor(opts, thrown, bound) ==
    LET call == Start("deleteFlow", opts)
        storeCall == StoreCall("removeFlow", Undefined, opts.id, Undefined)
        caught == Threw(call, storeCall, thrown)
    IN  IF thrown = NoError
        THEN Await(call, storeCall)
        ELSE IF ~bound
        THEN Reject(caught, ReferenceError)
        ELSE IF IsStoreNotFound(thrown)
        THEN Reject(Audit(caught, AuditRecord("flow.remove", Undefined, opts.id,
                                              "not_found")),
                    NotFoundSwap(thrown))
        ELSE Reject(Audit(caught, AuditRecord("flow.remove", Undefined, opts.id,
                                              ErrorCodeOr(thrown))),
                    BadRequest(thrown))

DeleteFlow(c) ==
    /\ calls[c].pc = "idle"
    /\ \E id \in FlowIds :
       \E thrown \in {NoError} \cup StoreThrows(id, flowTable) :
          calls' = [calls EXCEPT ![c] =
              DeleteFlowExecutor([NoOpts EXCEPT !.id = id], thrown, logBound)]
    /\ NoCommit

\* .then(function() { log.audit({event: "flow.remove",id:id}); return resolve(); })
\* Where `log` is unbound the callback throws before resolve(): the
\* caller's promise stays pending.
DeleteFlowThenOutcome(call, bound) ==
    IF bound
    THEN Finish(Resolve(Audit(call, AuditRecord("flow.remove", Undefined,
                                                call.opts.id, Undefined)),
                        Value("undefined", NoRev, Undefined, <<>>)))
    ELSE Finish(call)

\* The store fulfils the promise of removeFlow; the callback runs.
DeleteFlowThen(c) ==
    /\ calls[c].pc = "waiting"
    /\ calls[c].op = "deleteFlow"
    /\ flowTable[calls[c].opts.id] # Undefined
    /\ \E r \in Revs : Commit(NodesRemoveFlow(Store, calls[c].opts.id, r))
    /\ calls' = Outdated([calls EXCEPT ![c] =
          DeleteFlowThenOutcome(Fulfil(calls[c], NoRev, Undefined), logBound)])

\* deleteFlow attaches no .catch to the promise of removeFlow: when the
\* store rejects it, the rejection reaches only the promise .then()
\* returned, which nobody holds; no code of deleteFlow runs and the
\* caller's promise stays pending.
DeleteFlowUnhandledOutcome(call) == Finish(call)

\* The store rejects the promise of removeFlow.
DeleteFlowUnhandled(c) ==
    /\ calls[c].pc = "waiting"
    /\ calls[c].op = "deleteFlow"
    /\ \E e \in StoreRejections(calls[c], flowTable) :
          calls' = [calls EXCEPT ![c] =
              DeleteFlowUnhandledOutcome(RejectWith(calls[c], e))]
    /\ NoCommit

---------------------------------------------------------------------------
(* getNodeCredentials *)

\* Credential field names.  "has_password" is the key getNodeCredentials
\* derives for the field "password".
FieldNames == {"password", "user", "has_password"}

\* definition[cred].type
FieldTypes == {"password", "text"}

\* JavaScript null, as a stored credential value.
Null == "<null>"

\* The number 0, as a stored credential value: falsy, and not a string.
Zero == "<number 0>"

\* Values the store holds for a credential field: Undefined when the
\* object has no such property.
StoredValues == {Undefined, Null, "", Zero, "alice", "secret"}

\* A stored credentials object, or NoCredentials when the store holds none
\* for the node (runtime.nodes.getCredentials returns undefined).
NoCredentials == [f \in FieldNames |-> "<no credentials>"]

CredentialObjects == [FieldNames -> StoredValues]

\* A credential definition: its own properties in enumeration (insertion)
\* order, each with its declared type.
RECURSIVE SeqsUpTo(_, _)
SeqsUpTo(S, n) ==
    IF n = 0 THEN {<<>>}
    ELSE LET shorter == SeqsUpTo(S, n - 1)
         IN  shorter \cup {Append(q, x) : q \in shorter, x \in S}

CredentialDefinitions ==
    {d \in SeqsUpTo([name : FieldNames, type : FieldTypes], MaxFields) :
        \A i, j \in 1..Len(d) : i # j => d[i].name # d[j].name}

\* Values of the object sent to the caller: booleans and strings.
Bool(b) == [t |-> "boolean", b |-> b, s |-> Undefined]

Str(str) == [t |-> "string", b |-> FALSE, s |-> str]

\* var sendCredentials = {};
EmptyObject == <<>>

\* obj[key] = value
Put(obj, key, value) ==
    [k \in DOMAIN obj \cup {key} |-> IF k = key THEN value ELSE obj[k]]

\* var key = 'has_' + cred;
HasKey(cred) == "has_" \o cred

\* Mutant: the test for the empty string left out.
IsSetNotNull(stored) == stored \notin {Null, Undefined}

\* credentials[cred] != null && credentials[cred] !== ''
IsSet(stored) == stored \notin {Null, Undefined} /\ stored # ""

\* Mutant: the stored value sent as it is, without the default.
OrEmptyRaw(stored) == stored

\* credentials[cred] || ''
OrEmpty(stored) == IF stored \in {Null, Undefined, "", Zero} THEN "" ELSE stored

\* definition[cred].type == "password"
IsPassword(field) == field.type = "password"

\* The for-in loop over the definition, after its first n properties.
RECURSIVE SendCredentials(_, _, _)
SendCredentials(definition, creds, n) ==
    IF n = 0 THEN EmptyObject
    ELSE LET sendCredentials == SendCredentials(definition, creds, n - 1)
             cred == definition[n].name
         IN  IF IsPassword(definition[n])
             THEN Put(sendCredentials, HasKey(cred), Bool(IsSet(creds[cred])))
             ELSE Put(sendCredentials, cred, Str(OrEmpty(creds[cred])))

NodeId == "n1"

NodeType == "t1"

\* log.audit({event: "credentials.get",type:opts.type,id:opts.id});
CredentialsAuditRecord(opts) ==
    AuditRecord("credentials.get", opts.type, opts.id, Undefined)

\* The executor of getNodeCredentials.  Its first statement audits through
\* the undeclared `log`: where the host defines none it throws, and the
\* executor's throw rejects the caller's promise.
GetNodeCredentialsExecutor(opts, creds, definition, bound) ==
    LET call == Start("getNodeCredentials", opts)
        audited == Audit(call, CredentialsAuditRecord(opts))
        looked == Read(audited, StoreCall("getCredentials", Undefined, opts.id,
                                          Undefined))
        defined == Read(looked, StoreCall("getCredentialDefinition", opts.type,
                                          Undefined, Undefined))
    IN  IF ~bound
        THEN Reject(call, ReferenceError)
        ELSE IF creds = NoCredentials
        THEN Resolve(looked, Value("credentials", NoRev, Undefined, EmptyObject))
        ELSE Resolve(defined,
                     Value("credentials", NoRev, Undefined,
                           SendCredentials(definition, creds, Len(definition))))

GetNodeCredentials(c) ==
    /\ calls[c].pc = "idle"
    /\ calls' = [calls EXCEPT ![c] =
          GetNodeCredentialsExecutor([NoOpts EXCEPT !.id = NodeId, !.type = NodeType],
                                     credentials, definitions, logBound)]
    /\ NoCommit

---------------------------------------------------------------------------
(* The caller *)

\* The caller has received the outcome of its call and may call again.
Return(c) ==
    /\ calls[c].pc = "done"
    /\ calls[c].out.state # "pending"
    /\ calls' = [calls EXCEPT ![c] = IdleCall]
    /\ NoCommit

---------------------------------------------------------------------------
(* Specifications *)

\* The definition and stored credentials of the node used while the flow
\* operations are explored.
ExampleDefinition ==
    <<[name |-> "password", type |-> "password"], [name |-> "user", type |-> "text"]>>

ExampleCredentials ==
    [f \in FieldNames |->
        IF f = "password" THEN "secret" ELSE IF f = "user" THEN "alice" ELSE Undefined]

\* init(_runtime): the module holds no state of its own; the store is in
\* any state.
Init ==
    /\ rev \in Revs
    /\ storeFlows \in FlowArrays
    /\ flowTable \in [FlowIds -> FlowBodies \cup {Undefined}]
    /\ credentials = ExampleCredentials
    /\ definitions = ExampleDefinition
    /\ logBound \in BOOLEAN
    /\ calls = [c \in Callers |-> IdleCall]

Next ==
    \E c \in Callers :
        \/ GetFlows(c)
        \/ SetFlows(c)
        \/ SetFlowsThen(c)
        \/ SetFlowsCatch(c)
        \/ AddFlow(c)
        \/ AddFlowThen(c)
        \/ AddFlowCatch(c)
        \/ GetFlow(c)
        \/ UpdateFlow(c)
        \/ UpdateFlowThen(c)
        \/ UpdateFlowCatch(c)
        \/ DeleteFlow(c)
        \/ DeleteFlowThen(c)
        \/ DeleteFlowUnhandled(c)
        \/ GetNodeCredentials(c)
        \/ Return(c)

Spec == Init /\ [][Next]_vars

\* getNodeCredentials over every credential definition and every stored
\* credentials object.
CredInit ==
    /\ rev = 1
    /\ storeFlows = "nodesA"
    /\ flowTable = [id \in FlowIds |-> Undefined]
    /\ credentials \in CredentialObjects \cup {NoCredentials}
    /\ definitions \in CredentialDefinitions
    /\ logBound \in BOOLEAN
    /\ calls = [c \in Callers |-> IdleCall]

\* The flow operations in a host process that defines a global `log`.
HostLogInit == Init /\ logBound

HostLogSpec == HostLogInit /\ [][Next]_vars

CredNext == \E c \in Callers : GetNodeCredentials(c) \/ Return(c)

CredSpec == CredInit /\ [][CredNext]_vars

---------------------------------------------------------------------------
(* Properties.  Each is stated over the call records: a call's trace lists *)
(* its audit records, its calls into the store and the settling of its    *)
(* promise, in the order the code performed them.                         *)

\* Positions of the calls of the store function `name` in the call's trace.
StoreCallsOf(call, name) ==
    {i \in DOMAIN call.trace :
        call.trace[i].k = "store" /\ call.trace[i].name = name}

\* Positions of the audit records of event `name` in the call's trace.
AuditsOf(call, name) ==
    {i \in DOMAIN call.trace :
        call.trace[i].k = "audit" /\ call.trace[i].name = name}

\* Positions at which the call's promise was settled.
SettlingsOf(call) ==
    {i \in DOMAIN call.trace : call.trace[i].k \in {"resolve", "reject"}}

\* The call was rejected as a version conflict.
IsVersionConflict(call) ==
    /\ call.out.state = "rejected"
    /\ call.out.err.status = 409
    /\ call.out.err.code = "version_mismatch"

\* The deployment type a setFlows request stands for.
RequestedType(call) ==
    IF call.opts.deploymentType = Undefined THEN "full"
    ELSE call.opts.deploymentType

\* Caller c starts, in this step, a non-reload setFlows with a payload.
StartsSetFlows(c) ==
    /\ calls[c].pc = "idle"
    /\ calls'[c].op = "setFlows"
    /\ calls'[c].opts.deploymentType # "reload"
    /\ calls'[c].opts.flows.present

StoreUnchanged ==
    /\ rev' = rev
    /\ storeFlows' = storeFlows
    /\ flowTable' = flowTable

C1_Step ==
    \A c \in Callers :
        (/\ StartsSetFlows(c)
         /\ calls'[c].opts.flows.hasRev
         /\ calls'[c].opts.flows.rev # rev)
        => /\ calls'[c].pc = "done"
           /\ IsVersionConflict(calls'[c])
           /\ StoreCallsOf(calls'[c], "setFlows") = {}
           /\ StoreUnchanged

\* C1: a non-reload setFlows whose payload carries a rev different from
\* the store's revision at the time of the call is rejected with the
\* version-conflict error (status 409) in that same step, without any call
\* of the store's setFlows, and leaves the store's flows and revision as
\* they were.
C1_ConflictRejected == [][C1_Step]_vars

C1_Witness ==
    \E c \in Callers :
        /\ calls[c].op = "setFlows"
        /\ calls[c].opts.flows.hasRev
        /\ calls[c].opts.flows.rev # rev
        /\ IsVersionConflict(calls[c])

\* C2: a non-reload setFlows whose payload has no rev field has called the
\* store's setFlows, whatever the store's revision, and is never rejected
\* as a version conflict.
C2_NoRevReachesStore ==
    \A c \in Callers :
        (/\ calls[c].op = "setFlows"
         /\ calls[c].opts.deploymentType # "reload"
         /\ calls[c].opts.flows.present
         /\ ~calls[c].opts.flows.hasRev)
        => /\ Cardinality(StoreCallsOf(calls[c], "setFlows")) = 1
           /\ StoreCallsOf(calls[c], "getFlows") = {}
           /\ ~IsVersionConflict(calls[c])
           /\ calls[c].out.err.status # 409

C2_Witness ==
    \E c \in Callers :
        /\ calls[c].op = "setFlows"
        /\ calls[c].opts.deploymentType = "nodes"
        /\ calls[c].opts.flows.present
        /\ ~calls[c].opts.flows.hasRev
        /\ calls[c].out.state = "resolved"
        /\ StoreCallsOf(calls[c], "setFlows") # {}

\* C3: a setFlows with deploymentType reload never reads the store's
\* revision and is never rejected as a version conflict, whatever payload
\* comes with it; it calls the store's loadFlows and never its setFlows.
C3_ReloadBypass ==
    \A c \in Callers :
        (calls[c].op = "setFlows" /\ calls[c].opts.deploymentType = "reload")
        => /\ StoreCallsOf(calls[c], "getFlows") = {}
           /\ StoreCallsOf(calls[c], "setFlows") = {}
           /\ Cardinality(StoreCallsOf(calls[c], "loadFlows")) = 1
           /\ ~IsVersionConflict(calls[c])
           /\ calls[c].out.err.status # 409

\* A reload that came with a stale rev and has called loadFlows.
C3_Witness ==
    \E c \in Callers :
        /\ calls[c].op = "setFlows"
        /\ calls[c].opts.deploymentType = "reload"
        /\ calls[c].opts.flows.hasRev
        /\ calls[c].opts.flows.rev # rev
        /\ calls[c].pc = "waiting"
        /\ StoreCallsOf(calls[c], "loadFlows") # {}

C4_Step ==
    \A c \in Callers :
        /\ (/\ StartsSetFlows(c)
            /\ calls'[c].opts.flows.hasRev => calls'[c].opts.flows.rev = rev)
           => /\ calls'[c].pc = "waiting"
              /\ Cardinality(StoreCallsOf(calls'[c], "setFlows")) = 1
              /\ \A i \in StoreCallsOf(calls'[c], "setFlows") :
                    /\ calls'[c].trace[i].flows = calls'[c].opts.flows.flows
                    /\ calls'[c].trace[i].type = RequestedType(calls'[c])
        /\ (/\ calls[c].pc = "waiting"
            /\ calls[c].op = "setFlows"
            /\ calls[c].opts.deploymentType # "reload"
            /\ calls'[c].promise.state = "fulfilled")
           => /\ calls'[c].out.state = "resolved"
              /\ calls'[c].out.value = Value("{rev}", rev', Undefined, <<>>)
              /\ calls'[c].out.value.rev = calls'[c].promise.rev
              /\ Cardinality(StoreCallsOf(calls'[c], "setFlows")) = 1

\* C4: a non-reload setFlows that passes the revision check (rev equal to
\* the store's revision at the call, or absent) calls the store's setFlows
\* exactly once, with the payload's flow array and the deployment type
\* ("full" when the request gives none); when the store fulfils that call
\* with revision r, setFlows resolves with {rev: r}.
C4_SetDelegated == [][C4_Step]_vars

C4_Witness ==
    \E c \in Callers :
        /\ calls[c].op = "setFlows"
        /\ calls[c].opts.deploymentType = Undefined
        /\ calls[c].opts.flows.hasRev
        /\ calls[c].out.state = "resolved"
        /\ calls[c].out.value.rev = rev

\* C5: the trace of every setFlows call starts with its one flows.set
\* audit record, tagged with the deployment type: the record precedes
\* every store call and the settling of the call's promise.
C5_AuditFirst ==
    \A c \in Callers :
        calls[c].op = "setFlows"
        => /\ AuditsOf(calls[c], "flows.set") = {1}
           /\ calls[c].trace[1].type = RequestedType(calls[c])
           /\ \A i \in DOMAIN calls[c].trace :
                 calls[c].trace[i].k \in {"store", "resolve", "reject"} => i > 1

\* A setFlows rejected by the store, and one rejected as a version conflict.
C5_Witness ==
    /\ \E c \in Callers :
          /\ calls[c].op = "setFlows"
          /\ calls[c].promise.state = "rejected"
          /\ calls[c].out.state = "rejected"
    /\ \E c \in Callers :
          /\ calls[c].op = "setFlows"
          /\ IsVersionConflict(calls[c])

\* C6: once the store has rejected the loadFlows or setFlows promise of a
\* setFlows call, the call is rejected with that same error, unmodified.
C6_StoreErrorReRaised ==
    \A c \in Callers :
        (calls[c].op = "setFlows" /\ calls[c].promise.state = "rejected")
        => /\ calls[c].out.state = "rejected"
           /\ calls[c].out.err = calls[c].promise.err

---------------------------------------------------------------------------
(* Properties of getNodeCredentials, under CredSpec. *)

\* Caller c has received the redacted form of a stored credentials object.
HasRedacted(c) ==
    /\ calls[c].op = "getNodeCredentials"
    /\ calls[c].out.state = "resolved"
    /\ credentials # NoCredentials

\* The fields the definition declares with type password.
PasswordFields ==
    {definitions[i].name : i \in {j \in DOMAIN definitions :
                                     definitions[j].type = "password"}}

\* The fields the definition declares with another type.
PlainFields ==
    {definitions[i].name : i \in {j \in DOMAIN definitions :
                                     definitions[j].type # "password"}}

\* A stored value that counts as set: present, not null, not "".
Present(stored) == stored # Undefined /\ stored # Null /\ stored # ""

\* The result holds has_f, the boolean "the stored value of f is set".
RedactedAsFlag(obj, f) ==
    /\ ("has_" \o f) \in DOMAIN obj
    /\ obj["has_" \o f] = [t |-> "boolean", b |-> Present(credentials[f]),
                           s |-> Undefined]

\* Stored credentials that differ from the store's only in the values of
\* password fields, set where the store's are set.
SameButSecrets(other) ==
    \A f \in FieldNames :
        IF f \in PasswordFields
        THEN Present(other[f]) <=> Present(credentials[f])
        ELSE other[f] = credentials[f]

\* The result is the same for whatever secrets are stored.
SecretsNotSent(obj) ==
    \A other \in CredentialObjects :
        SameButSecrets(other)
        => SendCredentials(definitions, other, Len(definitions)) = obj

\* No field of another type is declared under the name has_f.
NoFlagClash(f) == ("has_" \o f) \notin PlainFields

\* C7 as stated: for every definition and stored credentials, the result
\* holds for each password field f the boolean has_f, true iff the stored
\* value of f is present and not "", and no stored secret reaches it.
C7_Original ==
    \A c \in Callers :
        HasRedacted(c)
        => /\ \A f \in PasswordFields : RedactedAsFlag(calls[c].out.value.obj, f)
           /\ SecretsNotSent(calls[c].out.value.obj)

\* C7 (amended): for each password field f for which the definition
\* declares no field of another type named has_f, the result holds the
\* boolean has_f, true iff the stored value of f is present (not null or
\* undefined) and not ""; and for every definition the result does not
\* depend on the stored values of password fields beyond their being set.
C7_PasswordsRedacted ==
    \A c \in Callers :
        HasRedacted(c)
        => /\ \A f \in PasswordFields :
                 NoFlagClash(f) => RedactedAsFlag(calls[c].out.value.obj, f)
           /\ SecretsNotSent(calls[c].out.value.obj)

\* Secrets stored as "secret", as "" and as null have been redacted.
C7_Witness ==
    \E c \in Callers :
        /\ HasRedacted(c)
        /\ definitions = <<[name |-> "password", type |-> "password"],
                           [name |-> "user", type |-> "password"]>>
        /\ credentials["password"] = "secret"
        /\ credentials["user"] = ""
        /\ calls[c].out.value.obj["has_password"].b
        /\ ~calls[c].out.value.obj["has_user"].b

\* The key the result holds for a declared field.
KeyOf(field) ==
    IF field.type = "password" THEN "has_" \o field.name ELSE field.name

\* The result has one key per declared field and no other, and holds
\* each field of another type than password under its own name, with the
\* stored value, or "" where the stored value is one of `none`.
OneKeyPerField(obj, none) ==
    /\ DOMAIN obj = {KeyOf(definitions[i]) : i \in DOMAIN definitions}
    /\ Cardinality(DOMAIN obj) = Len(definitions)
    /\ \A f \in PlainFields :
          obj[f] = [t |-> "string", b |-> FALSE,
                    s |-> IF credentials[f] \in none THEN "" ELSE credentials[f]]

\* C8 as stated: for every definition and stored credentials, with ""
\* where no value is stored.
C8_Original ==
    \A c \in Callers :
        HasRedacted(c)
        => OneKeyPerField(calls[c].out.value.obj, {Undefined, Null})

\* C8 (amended): for every definition that declares no field of another
\* type under the name has_f of one of its password fields f, and every
\* stored credentials object, the result has exactly one key per declared
\* field and no others; each field f of another type than password is
\* under its own name with the stored value, or "" where the stored value
\* is falsy (absent, null, "", 0); stored fields the definition does not
\* declare do not appear.
C8_ExactKeys ==
    \A c \in Callers :
        (HasRedacted(c) /\ \A f \in PasswordFields : NoFlagClash(f))
        => OneKeyPerField(calls[c].out.value.obj, {Undefined, Null, "", Zero})

\* The example of the specification, with a stored field that is not
\* declared.
C8_Witness ==
    \E c \in Callers :
        /\ HasRedacted(c)
        /\ definitions = <<[name |-> "password", type |-> "password"],
                           [name |-> "user", type |-> "text"]>>
        /\ credentials = [f \in FieldNames |->
                             IF f = "password" THEN "secret"
                             ELSE IF f = "user" THEN "alice" ELSE "alice"]
        /\ DOMAIN calls[c].out.value.obj = {"has_password", "user"}
        /\ calls[c].out.value.obj["user"].s = "alice"

\* C9: a getNodeCredentials for a node the store holds no credentials for
\* resolves with the empty mapping, whatever the definition, after a
\* credentials.get audit record tagged with the type and the id.
C9_AbsentCredentials ==
    \A c \in Callers :
        (calls[c].op = "getNodeCredentials" /\ credentials = NoCredentials)
        => /\ calls[c].out.state = "resolved"
           /\ calls[c].out.value.obj = <<>>
           /\ \E i \in AuditsOf(calls[c], "credentials.get") :
                 /\ calls[c].trace[i].type = calls[c].opts.type
                 /\ calls[c].trace[i].id = calls[c].opts.id

---------------------------------------------------------------------------
(* Properties of updateFlow and deleteFlow, under Spec. *)

\* The store has signalled its code-404 failure to the call, by a throw or
\* by rejecting its promise.
StoreSaidNotFound(call) ==
    /\ call.promise.state \in {"threw", "rejected"}
    /\ call.promise.err.code = Code404

\* C10: an updateFlow or deleteFlow to which the store has signalled its
\* code-404 failure, by a throw or by a rejected promise, is rejected with
\* status 404 and code "not_found".
C10_NotFoundNormalized ==
    \A c \in Callers :
        (calls[c].op \in {"updateFlow", "deleteFlow"} /\ StoreSaidNotFound(calls[c]))
        => /\ calls[c].out.state = "rejected"
           /\ calls[c].out.err.status = 404
           /\ calls[c].out.err.code = "not_found"

---------------------------------------------------------------------------
(* Properties of the error contract of addFlow, updateFlow and deleteFlow. *)

\* The operations that change one flow.
FlowWrites == {"addFlow", "updateFlow", "deleteFlow"}

\* The store has failed the call, by a throw or by rejecting its promise.
StoreFailed(call) == call.promise.state \in {"threw", "rejected"}

\* C11: no addFlow, updateFlow or deleteFlow is rejected with an error
\* whose code is the store's numeric 404: where the store failed with that
\* code, the error the caller gets carries another code.
C11_NoRaw404 ==
    \A c \in Callers :
        (calls[c].op \in FlowWrites /\ calls[c].out.state = "rejected")
        => calls[c].out.err.code # Code404

\* The audit record of `event` at position i of the call's trace tells the
\* id and no error.
AuditedId(call, i, event, id) ==
    /\ AuditsOf(call, event) = {i}
    /\ call.trace[i].id = id
    /\ call.trace[i].error = Undefined

\* The audit record of `event` at position i of the call's trace tells the
\* store's error code, or unexpected_error where the error has none.
AuditedStoreCode(call, i, event) ==
    /\ AuditsOf(call, event) = {i}
    /\ call.trace[i].error = IF call.promise.err.code = Undefined
                             THEN "unexpected_error"
                             ELSE call.promise.err.code

\* The call was rejected with the store's error, its status set to 400.
RejectedAsBadRequest(call) ==
    /\ call.out.state = "rejected"
    /\ call.out.err = [call.promise.err EXCEPT !.status = 400]

\* C12: an addFlow whose store promise is fulfilled with an id has written
\* one flow.add audit record with that id and then resolved with the id;
\* one whose store promise is rejected has written one flow.add audit
\* record with the store's error code (unexpected_error where the error
\* has none) and then rejected with the store's error, its status 400;
\* until the store settles its promise nothing is audited or settled.
C12_AddFlowContract ==
    \A c \in Callers :
        calls[c].op = "addFlow"
        => LET call == calls[c]
           IN  /\ call.promise.state \in {"pending", "fulfilled", "rejected"}
               /\ call.promise.state = "pending"
                  => /\ call.out.state = "pending"
                     /\ AuditsOf(call, "flow.add") = {}
               /\ call.promise.state = "fulfilled"
                  => /\ AuditedId(call, 2, "flow.add", call.promise.id)
                     /\ SettlingsOf(call) = {3}
                     /\ call.out.state = "resolved"
                     /\ call.out.value = Value("id", NoRev, call.promise.id, <<>>)
               /\ call.promise.state = "rejected"
                  => /\ AuditedStoreCode(call, 2, "flow.add")
                     /\ SettlingsOf(call) = {3}
                     /\ RejectedAsBadRequest(call)

\* One addFlow resolved with the new id; another rejected with a store
\* error that came with a code and a status of its own.
C12_Witness ==
    /\ \E c \in Callers :
          /\ calls[c].op = "addFlow"
          /\ calls[c].out.state = "resolved"
          /\ calls[c].out.value.val \in FlowIds
    /\ \E c \in Callers :
          /\ calls[c].op = "addFlow"
          /\ calls[c].promise.err.code = "invalid_flow"
          /\ calls[c].promise.err.status = 500
          /\ calls[c].out.err.status = 400

\* The audit event of an operation on one flow.
AuditEventOf(op) ==
    IF op = "updateFlow" THEN "flow.update"
    ELSE IF op = "deleteFlow" THEN "flow.remove"
    ELSE "flow.add"

\* C13: an updateFlow or deleteFlow that the store has failed with an
\* error of another code than 404, by a throw or by a rejected promise,
\* is rejected with status 400, after one audit record of its event
\* (flow.update / flow.remove) that tells the store's error code, or
\* unexpected_error where the error has none.
C13_OtherFailures400 ==
    \A c \in Callers :
        (/\ calls[c].op \in {"updateFlow", "deleteFlow"}
         /\ StoreFailed(calls[c])
         /\ calls[c].promise.err.code # Code404)
        => /\ calls[c].out.state = "rejected"
           /\ calls[c].out.err.status = 400
           /\ \E i \in AuditsOf(calls[c], AuditEventOf(calls[c].op)) :
                 /\ AuditedStoreCode(calls[c], i, AuditEventOf(calls[c].op))
                 /\ \A j \in SettlingsOf(calls[c]) : i < j

---------------------------------------------------------------------------
(* Properties of getFlow and getFlows. *)

C14_Step ==
    \A c \in Callers :
        (calls[c].pc = "idle" /\ calls'[c].op = "getFlow")
        => LET call == calls'[c]
               id == call.opts.id
           IN  /\ call.pc = "done"
               /\ Cardinality(AuditsOf(call, "flow.get")) = 1
               /\ SettlingsOf(call) = {3}
               /\ IF flowTable[id] # Undefined
                  THEN /\ AuditedId(call, 2, "flow.get", id)
                       /\ call.out.state = "resolved"
                       /\ call.out.value = Value("flow", NoRev, flowTable[id], <<>>)
                  ELSE /\ AuditsOf(call, "flow.get") = {2}
                       /\ call.trace[2].id = id
                       /\ call.trace[2].error = "not_found"
                       /\ call.out.state = "rejected"
                       /\ call.out.err.status = 404
                       /\ call.out.err.code = Undefined

\* C14: a getFlow either resolves with the flow the store holds for the
\* id at the time of the call, after a flow.get audit record with the id
\* and no error, or, where the store holds no flow for the id, is rejected
\* with an error of status 404 and no code, after a flow.get audit record
\* with the id and error not_found; each call writes exactly one flow.get
\* audit record, and writes it before it settles.
C14_GetFlowContract == [][C14_Step]_vars

\* One getFlow that found its flow while another has missed it.
C14_Witness ==
    /\ \E c \in Callers :
          /\ calls[c].op = "getFlow"
          /\ calls[c].out.state = "resolved"
          /\ calls[c].out.value.val \in FlowBodies
    /\ \E c \in Callers :
          /\ calls[c].op = "getFlow"
          /\ calls[c].out.state = "rejected"
          /\ calls[c].out.err.status = 404

\* The call holds the result of a read of the store's flows, and the
\* store has committed no write since that read.
HoldsFresh(call, op) == call.op = op /\ ~call.stale

\* Two calls of the same read, both made since the store's last write,
\* have the same result.
SameReads ==
    \A c, d \in Callers :
        /\ (HoldsFresh(calls[c], "getFlows") /\ HoldsFresh(calls[d], "getFlows"))
           => calls[c].out = calls[d].out
        /\ (/\ HoldsFresh(calls[c], "getFlow")
            /\ HoldsFresh(calls[d], "getFlow")
            /\ calls[c].opts.id = calls[d].opts.id)
           => calls[c].out = calls[d].out

\* A read made since the store's last write has returned what the store
\* holds: its flows with their revision, or the flow of the id.
ReadsCurrent ==
    \A c \in Callers :
        /\ HoldsFresh(calls[c], "getFlows")
           => /\ calls[c].out.state = "resolved"
              /\ calls[c].out.value = Value("{rev,flows}", rev, storeFlows, <<>>)
        /\ HoldsFresh(calls[c], "getFlow")
           => IF flowTable[calls[c].opts.id] # Undefined
              THEN /\ calls[c].out.state = "resolved"
                   /\ calls[c].out.value.val = flowTable[calls[c].opts.id]
              ELSE calls[c].out.state = "rejected"

\* A step in which a caller reads changes nothing in the store.
ReadsLeaveStore ==
    \A c \in Callers :
        (calls[c].pc = "idle" /\ calls'[c].op \in FlowReads) => StoreUnchanged

\* C17: two getFlows calls (two getFlow calls for one id) between which the
\* store has committed no write have identical results, namely what the
\* store holds; and no getFlows or getFlow step changes the store's
\* flows, flow table or revision.
C17_ReadsIdempotent == [](SameReads /\ ReadsCurrent) /\ [][ReadsLeaveStore]_vars

\* Both callers hold the result of a getFlows, with no write between the
\* two calls.
C17_Witness ==
    /\ \A c \in Callers : HoldsFresh(calls[c], "getFlows")
    /\ \A c \in Callers : calls[c].out.value.rev = NumRevs
    /\ storeFlows = "nodesB"

---------------------------------------------------------------------------
(* Properties of all operations. *)

\* The classification of the error a call is rejected with: its code; for
\* an error without code, not_found where its status is 404 and
\* unexpected_error otherwise.
Classification(err) ==
    IF err.code # Undefined THEN err.code
    ELSE IF err.status = 404 THEN "not_found"
    ELSE "unexpected_error"

\* Position of the rejection in the call's trace.
RejectionOf(call) ==
    {i \in DOMAIN call.trace : call.trace[i].k = "reject"}

\* The request is one the interface allows: a setFlows other than a
\* reload comes with a payload.
WellFormed(call) ==
    (call.op = "setFlows" /\ call.opts.deploymentType # "reload")
    => call.opts.flows.present

\* C15: every call of a well-formed request that has been rejected has
\* written, before the rejection, an audit record whose error is the
\* classification of the error it was rejected with.
C15_RejectionAudited ==
    \A c \in Callers :
        (calls[c].out.state = "rejected" /\ WellFormed(calls[c]))
        => \E i \in DOMAIN calls[c].trace :
              /\ calls[c].trace[i].k = "audit"
              /\ calls[c].trace[i].error = Classification(calls[c].out.err)
              /\ \A j \in RejectionOf(calls[c]) : i < j

---------------------------------------------------------------------------
(* Progress.  The store settles every promise it has returned: for a call  *)
(* that waits for the store, one of the steps in which the store fulfils   *)
(* or rejects its promise is eventually taken.                             *)

\* The store settles the promise caller c waits for.
StoreSettles(c) ==
    \/ SetFlowsThen(c)
    \/ SetFlowsCatch(c)
    \/ AddFlowThen(c)
    \/ AddFlowCatch(c)
    \/ UpdateFlowThen(c)
    \/ UpdateFlowCatch(c)
    \/ DeleteFlowThen(c)
    \/ DeleteFlowUnhandled(c)

StoreFairness == \A c \in Callers : WF_vars(StoreSettles(c))

\* The flow operations in a host process that defines a global `log`,
\* over a store that settles every promise it returns.
LiveSpec == HostLogInit /\ [][Next]_vars /\ StoreFairness

\* C16: every call that has been made is eventually resolved or rejected.
C16_EverySettles ==
    \A c \in Callers :
        (calls[c].pc # "idle") ~> (calls[c].out.state # "pending")

---------------------------------------------------------------------------
(* Properties of the revision check over time and across callers. *)

\* Caller d holds a FlowSet it has read, with revision r1, and a write
\* committed since has left the store at another revision.
ReadBeforeChange(d, r1) ==
    /\ calls[d].op = "getFlows"
    /\ calls[d].out.state = "resolved"
    /\ calls[d].out.value.rev = r1
    /\ calls[d].stale
    /\ r1 # rev

\* The call has passed the revision check and handed its flows to the store.
Forwarded(call) ==
    /\ call.pc = "waiting"
    /\ call.out.state = "pending"
    /\ Cardinality(StoreCallsOf(call, "setFlows")) = 1

C18_Step ==
    \A c, d \in Callers : \A r1 \in Revs :
        (/\ ReadBeforeChange(d, r1)
         /\ StartsSetFlows(c)
         /\ calls'[c].opts.flows.hasRev)
        => /\ calls'[c].opts.flows.rev = r1
              => /\ IsVersionConflict(calls'[c])
                 /\ StoreCallsOf(calls'[c], "setFlows") = {}
           /\ calls'[c].opts.flows.rev = rev
              => Forwarded(calls'[c])

\* C18: once a write has committed that changed the store's revision from
\* r1, the revision a caller has read before, to r2, the revision the
\* store has now, every non-reload setFlows carrying rev r1 is rejected
\* with status 409 without a call of the store's setFlows, and every one
\* carrying rev r2 passes the check and is handed to the store.
C18_RevisionReadFresh == [][C18_Step]_vars

\* A caller holds the revision it read before the store's revision
\* changed; the other has since been rejected with it.
C18_Witness ==
    \E c, d \in Callers : \E r1 \in Revs :
        /\ ReadBeforeChange(d, r1)
        /\ calls[c].op = "setFlows"
        /\ calls[c].opts.flows.rev = r1
        /\ IsVersionConflict(calls[c])

\* The call is a non-reload setFlows that carries rev r.
Carries(call, r) ==
    /\ call.op = "setFlows"
    /\ call.opts.deploymentType # "reload"
    /\ call.opts.flows.present
    /\ call.opts.flows.hasRev
    /\ call.opts.flows.rev = r

C19_Step ==
    \A c, d \in Callers :
        (/\ c # d
         /\ Carries(calls[d], rev)
         /\ Forwarded(calls[d])
         /\ StartsSetFlows(c)
         /\ Carries(calls'[c], rev))
        => /\ Forwarded(calls'[c])
           /\ ~IsVersionConflict(calls'[c])
           /\ calls'[d] = calls[d]
           /\ StoreUnchanged

\* C19: a non-reload setFlows that carries the store's revision, made
\* while another such call carrying the same revision has passed the check
\* and waits for the store to commit its write, passes the check too: both
\* calls have been handed to the store's setFlows, neither is rejected with
\* status 409, and the later call changes nothing of the earlier one.
C19_NoSerialization == [][C19_Step]_vars

\* Two writers with the same rev and different flows, both waiting for the
\* store.
C19_Witness ==
    /\ \A c \in Callers : Carries(calls[c], rev) /\ Forwarded(calls[c])
    /\ calls["c1"].opts.flows.flows # calls["c2"].opts.flows.flows

====
